---- MODULE Spec2Model ----
(***************************************************************************)
(* reading-syncer (src/src/main.rs): a batch job that queries a Notion     *)
(* database, turns the records into a ReadingList, writes one markdown     *)
(* file per item under dist/content/reading/ and commits and pushes the    *)
(* working copy at dist/ to refs/heads/main of the target repository.      *)
(*                                                                         *)
(* Strings whose characters matter (titles, paths) are sequences of        *)
(* one-character tokens; the other strings are TLA+ strings.  An Option    *)
(* or a JSON path that may be absent is a record [ok, v].                  *)
(***************************************************************************)
EXTENDS Naturals, Sequences, FiniteSets, TLC

VARIABLES
    pc,            \* position of main: the stage to run next, "done" or "panicked"
    args,          \* Args built by parse_args
    httpStatus,    \* status line of the HTTP response (0: no response yet / none)
    response,      \* database_content: the JSON value returned by the Fetcher
    data,          \* Option<ReadingList> returned by the Transformer
    repoExists,    \* a git repository exists at CLONED_REPO_PATH
    repoOpen,      \* main holds the Repository handle `repo`
    localHead,     \* commit that HEAD (refs/heads/main) of the local repository names
    remoteMain,    \* commit that refs/heads/main of the remote names
    remoteAtStart, \* remoteMain when the run started
    tipAtAcquire,  \* local branch tip when the working copy was acquired
    commits,       \* commit id -> [parent, tree, message, author]
    gitConfig,     \* entries of the local repository configuration
    index,         \* the git index (staged files)
    fs,            \* files of the working tree under dist/: path -> blocks written
    distDir,       \* DIST_PATH exists as a directory
    touched,       \* paths File::create has been called on
    ops,           \* side-effecting operations begun so far, in order
    completed,     \* stages of main that returned successfully
    failure,       \* panic message of the run ("" while none)
    gitError,      \* the git2 error behind "Failed to commit to repo"
    writes,        \* number of successful calls of write_mdfiles_to_dist
    fsOnce         \* fs as the first successful call of the Writer left it

vars == <<pc, args, httpStatus, response, data, repoExists, repoOpen, localHead,
          remoteMain, remoteAtStart, tipAtAcquire, commits, gitConfig, index, fs,
          distDir, touched, ops, completed, failure, gitError, writes, fsOnce>>

(***************************************************************************)
(* Bounds                                                                  *)
(***************************************************************************)
MaxRecords == 2
MaxWrites == 2

(***************************************************************************)
(* Constants of the program                                                *)
(***************************************************************************)
TARGET_REPO_URL == "https://github.com/Almo7aya/almo7aya.github.io.git"
CLONED_REPO_PATH == <<"dist", "/">>
NOTION_API_URL == "https://api.notion.com/v1/databases/"
DIST_PATH == <<"dist", "/", "content", "/", "reading", "/">>

Range(s) == {s[i] : i \in 1..Len(s)}

(***************************************************************************)
(* JSON values.  A path of the response that is absent, null or of the     *)
(* wrong shape makes the chain of get()/as_array()/as_str() yield None:    *)
(* it is the value with ok = FALSE.                                        *)
(***************************************************************************)
NoStr == [ok |-> FALSE, v |-> ""]
Str(s) == [ok |-> TRUE, v |-> s]
NoText == [ok |-> FALSE, v |-> <<>>]
Text(t) == [ok |-> TRUE, v |-> t]
NoResults == [ok |-> FALSE, v |-> <<>>]
Results(rs) == [ok |-> TRUE, v |-> rs]

Seqs(S, n) == UNION {[1..k -> S] : k \in 0..n}

TitleTexts ==
    { <<>>, <<"a", "/", "b">>, <<"a", "-", "b">>, <<"/", "/">> }
UrlTexts == {"", "u1"}
DateTexts == {"", "d1"}

\* every record shape the Transformer tells apart
Records ==
    [ url : {NoStr} \cup {Str(u) : u \in UrlTexts},
      title : {NoText} \cup {Text(t) : t \in TitleTexts},
      created_time : {NoStr} \cup {Str(d) : d \in DateTexts} ]

\* the records of the end-to-end runs: three well-formed ones (two of them
\* with titles that normalise to the same file name) and one without URL
SampleRecords ==
    { [url |-> Str("u1"), title |-> Text(<<"a", "/", "b">>), created_time |-> Str("d1")],
      [url |-> Str("u2"), title |-> Text(<<"a", "-", "b">>), created_time |-> Str("d1")],
      [url |-> Str("u1"), title |-> Text(<<"/", "/">>), created_time |-> Str("d1")],
      [url |-> NoStr, title |-> Text(<<"a", "-", "b">>), created_time |-> Str("d1")] }

Databases(R) == {[results |-> NoResults]} \cup {[results |-> Results(rs)] : rs \in Seqs(R, MaxRecords)}

NoDatabase == [ok |-> FALSE, v |-> [results |-> NoResults]]
None == [ok |-> FALSE, list |-> <<>>]
Some(l) == [ok |-> TRUE, list |-> l]

(***************************************************************************)
(* main: the order of the stages                                           *)
(***************************************************************************)
MainOrderWriterFirst ==
    <<"parse_args", "fetch", "transform", "write", "clone", "publish">>

MainOrder ==
    <<"parse_args", "fetch", "transform", "clone", "write", "publish">>

After(stage) ==
    LET i == CHOOSE k \in 1..Len(MainOrder) : MainOrder[k] = stage
    IN  IF i = Len(MainOrder) THEN "done" ELSE MainOrder[i + 1]

Panic(msg) ==
    /\ pc' = "panicked"
    /\ failure' = msg

(***************************************************************************)
(* parse_args: each parameter that is not given falls back to its name     *)
(***************************************************************************)
CliInputs ==
    { [gh_token |-> NoStr, notion_token |-> NoStr, notion_database_id |-> NoStr],
      [gh_token |-> Str("ghp"), notion_token |-> Str("secret"), notion_database_id |-> Str("db1")] }

unwrap_or(opt, default) == IF opt.ok THEN opt.v ELSE default

parse_args ==
    /\ pc = "parse_args"
    /\ \E cli \in CliInputs :
         args' = [ gh_token |-> unwrap_or(cli.gh_token, "gh_token"),
                   notion_token |-> unwrap_or(cli.notion_token, "notion_token"),
                   notion_database_id |-> unwrap_or(cli.notion_database_id, "notion_database_id") ]
    /\ ops' = Append(ops, "parse_args")
    /\ completed' = completed \cup {"parse_args"}
    /\ pc' = After("parse_args")
    /\ UNCHANGED <<httpStatus, response, data, repoExists, repoOpen, localHead,
                   remoteMain, remoteAtStart, tipAtAcquire, commits, gitConfig, index,
                   fs, distDir, touched, failure, gitError, writes, fsOnce>>

(***************************************************************************)
(* get_database_from_notion: one POST; send() fails on a transport error,  *)
(* json() on a body that is not JSON.  The status of the response is not   *)
(* looked at.                                                              *)
(***************************************************************************)
HttpStatuses == {200, 401}

get_database_from_notion ==
    /\ pc = "fetch"
    /\ ops' = Append(ops, "fetch")
    /\ \/ /\ httpStatus' = 0
          /\ response' = NoDatabase
          /\ Panic("Failed to load database: send")
          /\ UNCHANGED completed
       \/ /\ httpStatus' \in HttpStatuses
          /\ response' = NoDatabase
          /\ Panic("Failed to load database: json")
          /\ UNCHANGED completed
       \/ /\ httpStatus' \in HttpStatuses
          /\ \E body \in Databases(SampleRecords) : response' = [ok |-> TRUE, v |-> body]
          /\ completed' = completed \cup {"fetch"}
          /\ pc' = After("fetch")
          /\ UNCHANGED failure
    /\ UNCHANGED <<args, data, repoExists, repoOpen, localHead, remoteMain,
                   remoteAtStart, tipAtAcquire, commits, gitConfig, index, fs,
                   distDir, touched, gitError, writes, fsOnce>>

(***************************************************************************)
(* get_formatted_data_from_database                                        *)
(***************************************************************************)
RECURSIVE ReplaceFirst(_)
ReplaceFirst(s) ==
    IF s = <<>> THEN <<>>
    ELSE IF Head(s) = "/" THEN <<"-">> \o Tail(s)
    ELSE <<Head(s)>> \o ReplaceFirst(Tail(s))

\* str::replace("/", "-"): every "/" becomes "-"
RECURSIVE Replace(_)
Replace(s) ==
    IF s = <<>> THEN <<>>
    ELSE <<IF Head(s) = "/" THEN "-" ELSE Head(s)>> \o Replace(Tail(s))

\* the three `?` chains of one record all yield Some
Extractable(record) ==
    /\ record.url.ok
    /\ record.title.ok
    /\ record.created_time.ok

ReadingListItem(record) ==
    [ url |-> record.url.v,
      title |-> Replace(record.title.v),
      date |-> record.created_time.v ]

PushFront(list, item) == <<item>> \o list

\* reading_list.0.push(item)
Push(list, item) == Append(list, item)

\* the for loop: a `?` that meets None returns None from the whole function
RECURSIVE FormatLoop(_, _)
FormatLoop(records, reading_list) ==
    IF records = <<>> THEN Some(reading_list)
    ELSE IF ~Extractable(Head(records)) THEN None
    ELSE FormatLoop(Tail(records), Push(reading_list, ReadingListItem(Head(records))))

get_formatted_data_from_database(database) ==
    IF ~database.results.ok THEN None
    ELSE FormatLoop(database.results.v, <<>>)

Transform ==
    /\ pc = "transform"
    /\ ops' = Append(ops, "transform")
    /\ data' = get_formatted_data_from_database(response.v)
    /\ IF data'.ok
       THEN /\ completed' = completed \cup {"transform"}
            /\ pc' = After("transform")
            /\ UNCHANGED failure
       ELSE /\ Panic("Failed to parse notion database")
            /\ UNCHANGED completed
    /\ UNCHANGED <<args, httpStatus, response, repoExists, repoOpen, localHead,
                   remoteMain, remoteAtStart, tipAtAcquire, commits, gitConfig, index,
                   fs, distDir, touched, gitError, writes, fsOnce>>

(***************************************************************************)
(* The repositories.  Commits are named; "base" is the commit the local    *)
(* repository (when there is one) was left at, "other" a commit somebody   *)
(* else pushed on top of it, "new" the commit of this run.                 *)
(***************************************************************************)
EmptyFiles == [p \in {} |-> <<>>]

StaleBlock ==
    [title |-> <<"o", "l", "d">>, date |-> "d0", draft |-> FALSE,
     affiliatelink |-> "u0", body |-> "u0"]

\* what the target repository holds under dist/content/reading/ before the run
BaseTrees ==
    { EmptyFiles,
      [p \in {DIST_PATH \o <<"a", "-", "b">> \o <<".md">>} |-> <<StaleBlock>>] }

InitialCommits(tree) ==
    ("base" :> [parent |-> "root", tree |-> tree, message |-> "initial", author |-> "someone"])
    @@ ("other" :> [parent |-> "base", tree |-> tree, message |-> "other", author |-> "someone"])

RECURSIVE IsAncestor(_, _, _)
IsAncestor(a, c, cm) ==
    \/ a = c
    \/ /\ c \in DOMAIN cm
       /\ IsAncestor(a, cm[c].parent, cm)

(***************************************************************************)
(* clone_target_repo_from_gh: Repository::discover, and Repository::clone  *)
(* when there is no repository; clone fails when the remote cannot be      *)
(* reached or when the target directory holds something already            *)
(***************************************************************************)
clone_target_repo_from_gh ==
    /\ pc = "clone"
    /\ \/ /\ repoExists
          /\ ops' = Append(ops, "discover")
          /\ repoOpen' = TRUE
          /\ tipAtAcquire' = localHead
          /\ completed' = completed \cup {"clone"}
          /\ pc' = After("clone")
          /\ UNCHANGED <<repoExists, localHead, fs, index, distDir, failure>>
       \/ /\ ~repoExists
          /\ ~distDir
          /\ ops' = ops \o <<"discover", "clone">>
          /\ repoExists' = TRUE
          /\ repoOpen' = TRUE
          /\ localHead' = remoteMain
          /\ tipAtAcquire' = remoteMain
          /\ fs' = commits[remoteMain].tree
          /\ index' = commits[remoteMain].tree
          /\ distDir' = (DOMAIN commits[remoteMain].tree # {})
          /\ completed' = completed \cup {"clone"}
          /\ pc' = After("clone")
          /\ UNCHANGED failure
       \/ /\ ~repoExists
          /\ ops' = ops \o <<"discover", "clone">>
          /\ Panic("failed to open")
          /\ UNCHANGED <<repoExists, repoOpen, localHead, tipAtAcquire, fs, index,
                         distDir, completed>>
    /\ UNCHANGED <<args, httpStatus, response, data, remoteMain, remoteAtStart,
                   commits, gitConfig, touched, gitError, writes, fsOnce>>

(***************************************************************************)
(* write_mdfiles_to_dist                                                   *)
(***************************************************************************)
\* format!("{}{}.{}", DIST_PATH, item.title, "md")
FilePath(title) == DIST_PATH \o title \o <<".md">>

\* the format! of lines 110-121
Content(item) ==
    [title |-> item.title, date |-> item.date, draft |-> FALSE,
     affiliatelink |-> item.url, body |-> item.url]

\* a file opened for appending keeps what it holds
OpenAppend(files, path) ==
    [p \in (DOMAIN files) \cup {path} |->
        IF p \in DOMAIN files THEN files[p] ELSE <<>>]

\* File::create: the file is created, or truncated when it exists
FileCreate(files, path) ==
    [p \in (DOMAIN files) \cup {path} |-> IF p = path THEN <<>> ELSE files[p]]

\* file.write_all(content.as_bytes())
write_all(files, path, content) ==
    [files EXCEPT ![path] = Append(@, content)]

WriteItemKeepExisting(files, item) ==
    IF FilePath(item.title) \in DOMAIN files
    THEN files
    ELSE write_all(FileCreate(files, FilePath(item.title)), FilePath(item.title), Content(item))

\* one iteration of the for loop
WriteItem(files, item) ==
    write_all(FileCreate(files, FilePath(item.title)), FilePath(item.title), Content(item))

RECURSIVE WriteItems(_, _)
WriteItems(files, list) ==
    IF list = <<>> THEN files
    ELSE WriteItems(WriteItem(files, Head(list)), Tail(list))

\* File::create cannot make a file in a directory that does not exist:
\* create_dir_all made DIST_PATH only, so a title with a separator fails
Creatable(title) == "/" \notin Range(title)

\* the first item whose File::create fails when the file system refuses the
\* item `refused` (Len(list) + 1: it refuses none); Len(list) + 1 when all succeed
FirstFailure(list, refused) ==
    LET bad == {k \in 1..Len(list) : k = refused \/ ~Creatable(list[k].title)}
    IN  IF bad = {} THEN Len(list) + 1
        ELSE CHOOSE k \in bad : \A j \in bad : k <= j

\* the whole function; refused = 0: create_dir_all fails
write_mdfiles_to_dist(files, list, refused) ==
    IF refused = 0
    THEN [ok |-> FALSE, dir |-> FALSE, files |-> files, created |-> {}]
    ELSE LET k == FirstFailure(list, refused)
             done == SubSeq(list, 1, k - 1)
         IN  [ ok |-> k = Len(list) + 1,
               dir |-> TRUE,
               files |-> WriteItems(files, done),
               created |-> {FilePath(done[i].title) : i \in 1..Len(done)} ]

\* one call from a caller that goes on at `next` when the call returns Ok
WriterCall(next) ==
    /\ \E refused \in 0..(Len(data.list) + 1) :
         LET r == write_mdfiles_to_dist(fs, data.list, refused)
         IN  /\ fs' = r.files
             /\ distDir' = (distDir \/ r.dir)
             /\ touched' = touched \cup r.created
             /\ ops' = ops \o <<"create_dir_all">>
                           \o (IF r.created # {} THEN <<"write_files">> ELSE <<>>)
             /\ IF r.ok
                THEN /\ completed' = completed \cup {"write"}
                     /\ writes' = writes + 1
                     /\ fsOnce' = IF writes = 0 THEN r.files ELSE fsOnce
                     /\ pc' = next
                     /\ UNCHANGED failure
                ELSE /\ Panic("Failed to write MD files")
                     /\ UNCHANGED <<completed, writes, fsOnce>>
    /\ UNCHANGED <<args, httpStatus, response, data, repoExists, repoOpen, localHead,
                   remoteMain, remoteAtStart, tipAtAcquire, commits, gitConfig, index,
                   gitError>>

\* main, line 39
Write ==
    /\ pc = "write"
    /\ WriterCall(After("write"))

(***************************************************************************)
(* setup_target_repo_commit_and_push                                       *)
(***************************************************************************)
\* config.set_str(format!("url.{}.insteadOf", gh_token), "https://github.com/")
ConfigEntry(token) ==
    [key |-> <<"url", token, "insteadOf">>, value |-> "https://github.com/"]

\* index.add_all(["*"]): every file of the working tree is staged
AddAll(idx, files) ==
    [p \in (DOMAIN idx) \cup (DOMAIN files) |->
        IF p \in DOMAIN files THEN files[p] ELSE idx[p]]

AmendParent(head, cm) == cm[head].parent

\* &[&parent_commit]: the one parent is the commit HEAD resolves to
CommitParent(head, cm) == head

KeepHead(old, new) == old

\* repo.commit(Some("HEAD"), ...): the branch HEAD names moves to the commit
UpdateRef(old, new) == new

NewCommit(head, tree, cm) ==
    [ parent |-> CommitParent(head, cm),
      tree |-> tree,
      message |-> "chore: update reading files",
      author |-> "github-actions[bot]" ]

\* how far the function gets when nothing but the push itself can fail
PublishOutcomes == {"config", "index", "connect", "push"}

setup_target_repo_commit_and_push ==
    /\ pc = "publish"
    /\ \E upto \in PublishOutcomes :
         LET staged == AddAll(index, fs)
             cm == commits @@ ("new" :> NewCommit(localHead, staged, commits))
             head == UpdateRef(localHead, "new")
         IN  \/ /\ upto = "config"
                /\ ops' = ops \o <<"config">>
                /\ gitError' = "config"
                /\ Panic("Failed to commit to repo")
                /\ UNCHANGED <<gitConfig, index, commits, localHead, remoteMain, completed>>
             \/ /\ upto = "index"
                /\ ops' = ops \o <<"config", "stage">>
                /\ gitConfig' = gitConfig \cup {ConfigEntry(args.gh_token)}
                /\ gitError' = "index"
                /\ Panic("Failed to commit to repo")
                /\ UNCHANGED <<index, commits, localHead, remoteMain, completed>>
             \/ /\ upto = "connect"
                /\ ops' = ops \o <<"config", "stage", "commit", "connect">>
                /\ gitConfig' = gitConfig \cup {ConfigEntry(args.gh_token)}
                /\ index' = staged
                /\ commits' = cm
                /\ localHead' = head
                /\ gitError' = "connect"
                /\ Panic("Failed to commit to repo")
                /\ UNCHANGED <<remoteMain, completed>>
             \/ /\ upto = "push"
                /\ ~IsAncestor(remoteMain, head, cm)
                /\ ops' = ops \o <<"config", "stage", "commit", "connect", "push">>
                /\ gitConfig' = gitConfig \cup {ConfigEntry(args.gh_token)}
                /\ index' = staged
                /\ commits' = cm
                /\ localHead' = head
                /\ gitError' = "non_fast_forward"
                /\ Panic("Failed to commit to repo")
                /\ UNCHANGED <<remoteMain, completed>>
             \/ /\ upto = "push"
                /\ IsAncestor(remoteMain, head, cm)
                /\ ops' = ops \o <<"config", "stage", "commit", "connect", "push">>
                /\ gitConfig' = gitConfig \cup {ConfigEntry(args.gh_token)}
                /\ index' = staged
                /\ commits' = cm
                /\ localHead' = head
                /\ remoteMain' = head
                /\ completed' = completed \cup {"publish"}
                /\ pc' = After("publish")
                /\ UNCHANGED <<failure, gitError>>
    /\ UNCHANGED <<args, httpStatus, response, data, repoExists, repoOpen,
                   remoteAtStart, tipAtAcquire, fs, distDir, touched, writes, fsOnce>>

(***************************************************************************)
(* The run: main from its first line, in every environment it can meet     *)
(***************************************************************************)
NoArgs == [gh_token |-> "", notion_token |-> "", notion_database_id |-> ""]

Environment(exists, remote, tree) ==
    /\ repoExists = exists
    /\ repoOpen = FALSE
    /\ localHead = (IF exists THEN "base" ELSE "none")
    /\ remoteMain = remote
    /\ remoteAtStart = remote
    /\ tipAtAcquire = "none"
    /\ commits = InitialCommits(tree)
    /\ gitConfig = {}
    /\ index = (IF exists THEN tree ELSE EmptyFiles)
    /\ fs = (IF exists THEN tree ELSE EmptyFiles)
    /\ distDir = (exists /\ DOMAIN tree # {})
    /\ touched = {}
    /\ gitError = ""
    /\ failure = ""
    /\ writes = 0
    /\ fsOnce = EmptyFiles

Init ==
    /\ pc = "parse_args"
    /\ args = NoArgs
    /\ httpStatus = 0
    /\ response = NoDatabase
    /\ data = None
    /\ ops = <<>>
    /\ completed = {}
    /\ \E exists \in BOOLEAN, remote \in {"base", "other"}, tree \in BaseTrees :
         Environment(exists, remote, tree)

Next ==
    \/ parse_args
    \/ get_database_from_notion
    \/ Transform
    \/ clone_target_repo_from_gh
    \/ Write
    \/ setup_target_repo_commit_and_push

Spec == Init /\ [][Next]_vars

(***************************************************************************)
(* The Transformer alone, on every response built from Records             *)
(***************************************************************************)
DefaultArgs ==
    [gh_token |-> "gh_token", notion_token |-> "notion_token",
     notion_database_id |-> "notion_database_id"]

InitT ==
    /\ pc = "transform"
    /\ args = DefaultArgs
    /\ httpStatus = 200
    /\ \E body \in Databases(Records) : response = [ok |-> TRUE, v |-> body]
    /\ data = None
    /\ ops = <<"parse_args", "fetch">>
    /\ completed = {"parse_args", "fetch"}
    /\ Environment(FALSE, "base", EmptyFiles)

NextT == Transform

SpecT == InitT /\ [][NextT]_vars

(***************************************************************************)
(* The Writer alone, called again and again with the list the Transformer  *)
(* returned, on a working copy that was reused                             *)
(***************************************************************************)
WriteAgain ==
    /\ pc = "write"
    /\ writes < MaxWrites
    /\ WriterCall("write")

InitW ==
    /\ pc = "write"
    /\ args = DefaultArgs
    /\ httpStatus = 200
    /\ \E body \in Databases({r \in Records \cup SampleRecords : Extractable(r)}) :
         /\ body.results.ok
         /\ response = [ok |-> TRUE, v |-> body]
         /\ data = get_formatted_data_from_database(body)
    /\ ops = <<"parse_args", "fetch", "transform", "discover">>
    /\ completed = {"parse_args", "fetch", "transform", "clone"}
    /\ \E tree \in BaseTrees :
         /\ repoExists = TRUE
         /\ repoOpen = TRUE
         /\ localHead = "base"
         /\ remoteMain = "base"
         /\ remoteAtStart = "base"
         /\ tipAtAcquire = "base"
         /\ commits = InitialCommits(tree)
         /\ gitConfig = {}
         /\ index = tree
         /\ fs = tree
         /\ distDir = (DOMAIN tree # {})
    /\ touched = {}
    /\ gitError = ""
    /\ failure = ""
    /\ writes = 0
    /\ fsOnce = EmptyFiles

NextW == WriteAgain

SpecW == InitW /\ [][NextW]_vars

(***************************************************************************)
(* The claims                                                              *)
(***************************************************************************)
Began(op) == op \in Range(ops)

SourceRecords == response.v.results.v

\* a title with each "/" turned into "-", position by position
Hyphenated(t) == [i \in 1..Len(t) |-> IF t[i] = "/" THEN "-" ELSE t[i]]

\* the item a record stands for
ItemOf(r) == [url |-> r.url.v, title |-> Hyphenated(r.title.v), date |-> r.created_time.v]

ItemsOf(rs) == [i \in 1..Len(rs) |-> ItemOf(rs[i])]

\* the three fields are there and none is the empty string
NonEmptyRecord(r) ==
    /\ Extractable(r)
    /\ r.url.v # ""
    /\ r.title.v # <<>>
    /\ r.created_time.v # ""

\* C1: when the results array mixes well-formed records with a record that
\* lacks one of url, title or created_time, the Transformer returns a
\* ReadingList holding exactly the items of the well-formed records, in
\* order, and raises no error.
C1_BadRecordIsDropped ==
    ( /\ Began("transform")
      /\ response.v.results.ok
      /\ \E i \in 1..Len(SourceRecords) : ~Extractable(SourceRecords[i])
      /\ \E i \in 1..Len(SourceRecords) : Extractable(SourceRecords[i]) )
    => /\ data.ok
       /\ data.list = ItemsOf(SelectSeq(SourceRecords, Extractable))
       /\ failure = ""

\* C2: when every record of the results array is well-formed, the
\* Transformer returns one item per record, in the order of the array, item
\* i holding record i's url, its title with "/" replaced by "-" and its
\* created_time.
C2_OneItemPerRecordInOrder ==
    ( /\ Began("transform")
      /\ response.v.results.ok
      /\ \A i \in 1..Len(SourceRecords) : NonEmptyRecord(SourceRecords[i]) )
    => /\ data.ok
       /\ failure = ""
       /\ Len(data.list) = Len(SourceRecords)
       /\ \A i \in 1..Len(SourceRecords) : data.list[i] = ItemOf(SourceRecords[i])

C2_Witness ==
    /\ Began("transform")
    /\ response.v.results.ok
    /\ Len(SourceRecords) >= 2
    /\ \A i \in 1..Len(SourceRecords) : NonEmptyRecord(SourceRecords[i])
    /\ SourceRecords[1] # SourceRecords[2]
    /\ "/" \in Range(SourceRecords[1].title.v)
    /\ data.ok
    /\ Len(data.list) = Len(SourceRecords)

\* the fetch stage failed in the sense of the claim: no response, a body
\* that is not JSON, or an HTTP error status
FetchFailed ==
    /\ Began("fetch")
    /\ \/ ~response.ok
       \/ httpStatus >= 400

FileOrRepoOps ==
    {"discover", "clone", "create_dir_all", "write_files", "config", "stage",
     "commit", "connect", "push"}

\* C3: when the fetch fails (network failure, non-JSON body, HTTP error
\* status), the run aborts: no file is written, the output directory is not
\* created and no repository operation is performed.
C3_FetchFailureTouchesNothing ==
    FetchFailed
    => /\ pc # "done"
       /\ touched = {}
       /\ Range(ops) \cap FileOrRepoOps = {}

\* the position of an operation in an order of operations (0: not in it)
Pos(op, order) ==
    IF \E k \in 1..Len(order) : order[k] = op
    THEN CHOOSE k \in 1..Len(order) : order[k] = op
    ELSE 0

\* the operations begun so far are operations of `order`, each begun at most
\* once and in the order `order` gives
InOrder(order) ==
    /\ \A i \in 1..Len(ops) : Pos(ops[i], order) > 0
    /\ \A i, j \in 1..Len(ops) : i < j => Pos(ops[i], order) < Pos(ops[j], order)

\* a stage has begun when the first operation it performs has
StageBegan(first, before) == Began(first) => before \in completed

ClaimedOrder ==
    <<"parse_args", "fetch", "transform", "create_dir_all", "write_files",
      "discover", "clone", "config", "stage", "commit", "connect", "push">>

\* C4 as stated: Loader, Fetcher, Transformer, Writer, Publisher, the
\* Publisher's acquisition of the working copy included: nothing of the
\* Publisher begins before the Writer has succeeded.
C4_PublisherAfterWriter ==
    /\ InOrder(ClaimedOrder)
    /\ StageBegan("fetch", "parse_args")
    /\ StageBegan("transform", "fetch")
    /\ StageBegan("create_dir_all", "transform")
    /\ StageBegan("discover", "write")
    /\ StageBegan("config", "write")

CodeOrder ==
    <<"parse_args", "fetch", "transform", "discover", "clone", "create_dir_all",
      "write_files", "config", "stage", "commit", "connect", "push">>

\* C4 amended: the order is Loader, Fetcher, Transformer, acquisition of
\* the working copy (discover, else clone), Writer, and then the other
\* steps of the Publisher (config, stage, commit, push); a stage begins only
\* when the one before it has succeeded, and a failed run does nothing more.
C4_AcquireBeforeWriter ==
    /\ InOrder(CodeOrder)
    /\ StageBegan("fetch", "parse_args")
    /\ StageBegan("transform", "fetch")
    /\ StageBegan("discover", "transform")
    /\ StageBegan("create_dir_all", "clone")
    /\ StageBegan("config", "write")
    /\ Began("clone") => Began("discover")
    /\ pc = "done" => completed = Range(MainOrder)
    /\ pc = "panicked" => failure # ""

C4_Witness ==
    /\ pc = "done"
    /\ Began("clone")
    /\ Began("write_files")
    /\ Began("push")

\* C5: every item the Transformer returns has a non-empty title, url and
\* date.
C5_ItemsAreNonEmpty ==
    data.ok
    => \A i \in 1..Len(data.list) :
         /\ data.list[i].title # <<>>
         /\ data.list[i].url # ""
         /\ data.list[i].date # ""

\* C6: when the push is rejected as non-fast-forward the run has failed, the
\* local branch is one new commit ahead of the previous tip and the remote
\* refs/heads/main is what it was before the run.
C6_RejectedPushKeepsLocalCommit ==
    gitError = "non_fast_forward"
    => /\ pc = "panicked"
       /\ failure = "Failed to commit to repo"
       /\ "publish" \notin completed
       /\ localHead = "new"
       /\ localHead # tipAtAcquire
       /\ "new" \in DOMAIN commits
       /\ commits["new"].parent = tipAtAcquire
       /\ remoteMain = remoteAtStart
       /\ remoteMain # "new"

C6_Witness ==
    /\ gitError = "non_fast_forward"
    /\ Began("push")
    /\ remoteAtStart = "other"
    /\ tipAtAcquire = "base"

Count(op) == Cardinality({i \in 1..Len(ops) : ops[i] = op})

DirectlyInside(path) ==
    /\ Len(path) > Len(DIST_PATH)
    /\ SubSeq(path, 1, Len(DIST_PATH)) = DIST_PATH
    /\ "/" \notin Range(SubSeq(path, Len(DIST_PATH) + 1, Len(path)))

\* C8: no title of an item holds a "/", and every file the Writer creates
\* is <title>.md directly inside dist/content/reading/: record i's file is
\* named by its title with each "/" replaced by "-".
C8_NoSeparatorInTitle ==
    /\ data.ok => \A i \in 1..Len(data.list) : "/" \notin Range(data.list[i].title)
    /\ \A p \in touched : DirectlyInside(p) /\ p \in DOMAIN fs
    /\ "write" \in completed
       => \A i \in 1..Len(SourceRecords) :
            DIST_PATH \o Hyphenated(SourceRecords[i].title.v) \o <<".md">> \in touched

C8_Witness ==
    /\ "write" \in completed
    /\ \E i \in 1..Len(SourceRecords) : SourceRecords[i].title.v = <<"/", "/">>
    /\ DIST_PATH \o <<"-", "-", ".md">> \in touched

\* C9: a second call of the Writer with the same list (both calls returning
\* Ok) leaves the files as the first call left them: the same files with
\* the same content.
C9_WriterIdempotent ==
    (writes >= 2 /\ failure = "")
    => /\ fs = fsOnce
       /\ DOMAIN fs = DOMAIN fsOnce

C9_Witness ==
    /\ writes >= 2
    /\ failure = ""
    /\ Len(data.list) >= 2
    /\ data.list[1].title # data.list[2].title
    /\ fs = fsOnce
    /\ \E p \in touched : p \in DOMAIN commits["base"].tree

\* the last item of the list with the title of item i
LastWith(i) ==
    CHOOSE j \in 1..Len(data.list) :
        /\ data.list[j].title = data.list[i].title
        /\ \A k \in 1..Len(data.list) : data.list[k].title = data.list[i].title => k <= j

\* C10: after the Writer succeeds, <title>.md holds the block of the last
\* item with that title, whatever the file held before, and the files
\* written are as many as the distinct titles.
C10_LastWriteWins ==
    (writes >= 1 /\ failure = "")
    => /\ \A i \in 1..Len(data.list) :
            LET it == data.list[LastWith(i)]
                p == DIST_PATH \o data.list[i].title \o <<".md">>
            IN  /\ p \in DOMAIN fs
                /\ fs[p] = << [title |-> it.title, date |-> it.date, draft |-> FALSE,
                               affiliatelink |-> it.url, body |-> it.url] >>
       /\ Cardinality(touched) = Cardinality({data.list[i].title : i \in 1..Len(data.list)})
       /\ \A p \in DOMAIN fs \ touched :
            p \in DOMAIN commits["base"].tree /\ fs[p] = commits["base"].tree[p]

C10_Witness ==
    /\ writes >= 1
    /\ failure = ""
    /\ Len(data.list) >= 2
    /\ data.list[1].title = data.list[2].title
    /\ data.list[1] # data.list[2]
    /\ Cardinality(touched) < Len(data.list)
    /\ \E p \in touched : p \in DOMAIN commits["base"].tree

====
